---------------------------- MODULE Spec2Model ----------------------------
(***************************************************************************)
(* Blogging API: the blog controller (createBlog, getPublishedBlogs,       *)
(* getBlog, getUserBlogs, updateBlog, updateBlogState, deleteBlog) over    *)
(* the Blog collection of the document store.                              *)
(*                                                                         *)
(* Strings are sequences of one-character strings, so that trim and        *)
(* split(/\s+/) are computed and not assumed.  A request body or a patch   *)
(* is a record whose DOMAIN is the set of fields the JSON body carries.    *)
(* An optional stored value (description) is a set of at most one value.   *)
(***************************************************************************)
EXTENDS Integers, Sequences, FiniteSets, TLC

VARIABLES
    blogs,      \* the Blog collection: id -> stored document
    nextId,     \* ids handed out so far (an _id is never reused)
    last,       \* the last request served and its response
    views,      \* history: id -> the 200 responses of getBlog for the blog
                \* since its creation (kept by CountViews only)
    pending     \* client -> the request of the client that has read its
                \* blog and not yet written (used by SpecConc only)

vars == <<blogs, nextId, last, views, pending>>

---------------------------------------------------------------------------
\* Bounds of the model

\* how many blogs are ever created
MaxBlogs == 2
\* getBlog stops counting views of a blog at this read_count
MaxReads == 2

---------------------------------------------------------------------------
\* Strings

IsWs(c) == c \in {" ", "\n", "\t"}

Min(S) == CHOOSE m \in S : \A k \in S : m <= k
Max(S) == CHOOSE m \in S : \A k \in S : m >= k

\* String.prototype.trim, and the schema option trim: true
Trim(s) ==
    LET nonWs == {i \in 1..Len(s) : ~IsWs(s[i])}
    IN  IF nonWs = {} THEN <<>> ELSE SubSeq(s, Min(nonWs), Max(nonWs))

\* s.split(/\s+/).length: the pieces between the maximal runs of whitespace,
\* an empty piece before a leading run and after a trailing run included;
\* the empty string splits into one (empty) piece.
SplitWsLength(s) ==
    LET n == Len(s)
        runs == {i \in 1..n : IsWs(s[i]) /\ (i = 1 \/ ~IsWs(s[i - 1]))}
    IN  Cardinality(runs) + 1

\* Math.ceil(a / b) for an integer a >= 0 and an integer b # 0
Ceil(a, b) == IF b > 0 THEN (a + b - 1) \div b ELSE 0 - (a \div (0 - b))

wordsPerMinute == 200

\* the body of the pre("save") hook, given that body is modified
ReadingTime(body) ==
    LET wordCount == SplitWsLength(Trim(body))
    IN  Ceil(wordCount, wordsPerMinute)

\* "word ".repeat(n)
Words(n) == [i \in 1..(2 * n) |-> IF i % 2 = 1 THEN "w" ELSE " "]

\* the letters, for the "i" flag of a RegExp
UpperCase ==
    <<"A", "B", "C", "D", "E", "F", "G", "H", "I", "J", "K", "L", "M",
      "N", "O", "P", "Q", "R", "S", "T", "U", "V", "W", "X", "Y", "Z">>
LowerCase ==
    <<"a", "b", "c", "d", "e", "f", "g", "h", "i", "j", "k", "l", "m",
      "n", "o", "p", "q", "r", "s", "t", "u", "v", "w", "x", "y", "z">>

Lower(c) ==
    IF \E i \in DOMAIN UpperCase : UpperCase[i] = c
    THEN LowerCase[CHOOSE i \in DOMAIN UpperCase : UpperCase[i] = c]
    ELSE c

LowerAll(s) == [i \in 1..Len(s) |-> Lower(s[i])]

\* new RegExp(pattern, "i") found in s, for a pattern of letters and digits:
\* pattern occurs in s, case ignored
RegExpI(pattern, s) ==
    \E i \in 0..(Len(s) - Len(pattern)) :
        LowerAll(SubSeq(s, i + 1, i + Len(pattern))) = LowerAll(pattern)

\* s.split(","), as the set of its pieces
RECURSIVE SplitComma(_)
SplitComma(s) ==
    LET commas == {i \in 1..Len(s) : s[i] = ","}
    IN  IF commas = {} THEN {s}
        ELSE {SubSeq(s, 1, Min(commas) - 1)}
                \cup SplitComma(SubSeq(s, Min(commas) + 1, Len(s)))

Digits == <<"0", "1", "2", "3", "4", "5", "6", "7", "8", "9">>
IsDigit(c) == \E i \in DOMAIN Digits : Digits[i] = c
DigitValue(c) == (CHOOSE i \in DOMAIN Digits : Digits[i] = c) - 1

RECURSIVE ParseDigits(_, _)
ParseDigits(s, acc) ==
    IF s = <<>> \/ ~IsDigit(Head(s)) THEN acc
    ELSE ParseDigits(Tail(s), 10 * acc + DigitValue(Head(s)))

\* a query parameter that is absent: undefined
Undefined == {}

\* parseInt(p) of a query parameter p, a set holding the string when the
\* parameter is given: the set holding the integer, or the empty set for NaN
parseInt(p) ==
    IF p = Undefined THEN {}
    ELSE LET s == CHOOSE x \in p : TRUE
             nonWs == {i \in 1..Len(s) : ~IsWs(s[i])}
             t == IF nonWs = {} THEN <<>> ELSE SubSeq(s, Min(nonWs), Len(s))
             signed == t # <<>> /\ Head(t) \in {"-", "+"}
             d == IF signed THEN Tail(t) ELSE t
         IN  IF d = <<>> \/ ~IsDigit(Head(d)) THEN {}
             ELSE IF signed /\ Head(t) = "-" THEN {0 - ParseDigits(d, 0)}
             ELSE {ParseDigits(d, 0)}

\* parseInt(p) || dflt: NaN and 0 are falsy
OrDefault(n, dflt) ==
    IF n = {} \/ n = {0} THEN dflt ELSE CHOOSE x \in n : TRUE

---------------------------------------------------------------------------
\* Users and requests

\* the registered users (req.user after protect / optionalAuth)
Users == {"u1", "u2"}
\* req.user of a request without a (valid) token
NoUser == "anonymous"
\* a well-formed ObjectId that is the _id of no user
GhostUser == "ghost"

States == {"draft", "published"}

Has(body, f) == f \in DOMAIN body

NoResponse == [op |-> "none", user |-> NoUser, id |-> 0, status |-> 0, data |-> {}]

Respond(op, u, id, status, data) ==
    [op |-> op, user |-> u, id |-> id, status |-> status, data |-> data]

\* middleware/errorHandler: the status of an error passed to next(error)
errorHandler(err) ==
    CASE err = "ValidationError" -> 400
      [] err = "DuplicateKey" -> 400
      [] OTHER -> 500

\* the clients whose requests are followed from their read to their write;
\* the requests of all other clients are served whole between those steps
Clients == {"c1"}

\* no request in flight
Idle == [op |-> "idle", user |-> NoUser, id |-> 0, doc |-> <<>>, body |-> <<>>]

\* the ids of the stored blogs
Ids == DOMAIN blogs
AllIds == 1..MaxBlogs

---------------------------------------------------------------------------
\* The Blog schema

\* required: true on a String path: undefined, null and "" are refused
\* (the value is the path's value after its setters, trim included)
RequiredOk(body, f, trimmed) ==
    /\ Has(body, f)
    /\ (IF trimmed THEN Trim(body[f]) ELSE body[f]) # <<>>

\* a seeded fault for C9: a schema whose title carries no unique index
TitleFree_NoIndex(title, self) == TRUE

\* unique: true on title: the store's unique index, over the other documents
TitleFree(title, self) ==
    \A j \in Ids : j # self => blogs[j].title # title

TrimAll(tags) == [i \in 1..Len(tags) |-> Trim(tags[i])]

\* new Blog({title, description, tags, body, author}) with the schema's
\* defaults, after the setters and the pre("save") hook
NewBlog(u, title, description, tags, body) ==
    [ title        |-> Trim(title),
      description  |-> {Trim(d) : d \in description},
      author       |-> u,
      state        |-> "draft",
      read_count   |-> 0,
      reading_time |-> ReadingTime(body),
      tags         |-> TrimAll(tags),
      body         |-> body,
      createdAt    |-> nextId + 1 ]

---------------------------------------------------------------------------
\* The state after construction: an empty collection

Init ==
    /\ blogs = <<>>
    /\ nextId = 0
    /\ last = NoResponse
    /\ views = <<>>
    /\ pending = [c \in Clients |-> Idle]

---------------------------------------------------------------------------
\* POST /api/blogs (protect, createBlog)

createBlog(u, body) ==
    /\ nextId < MaxBlogs
    /\ IF /\ RequiredOk(body, "title", TRUE)
          /\ RequiredOk(body, "body", FALSE)
          /\ TitleFree(Trim(body.title), 0)
       THEN LET id == nextId + 1
                blog == NewBlog(u, body.title,
                                IF Has(body, "description") THEN {body.description} ELSE {},
                                IF Has(body, "tags") THEN body.tags ELSE <<>>,
                                body.body)
            IN  /\ blogs' = (id :> blog) @@ blogs
                /\ nextId' = id
                /\ last' = Respond("createBlog", u, id, 201, {blog})
       ELSE \* ValidationError or duplicate key (E11000): next(error)
            /\ last' = Respond("createBlog", u, 0, errorHandler("ValidationError"), {})
            /\ UNCHANGED <<blogs, nextId>>

---------------------------------------------------------------------------
\* GET /api/blogs/:id (optionalAuth, getBlog)

\* .populate("author", ...): the user document, or null when no user has
\* that _id
Populated(blog) == blog.author \in Users

\* the test of lines 110-112, when it does not throw
DraftDenied(u, blog) ==
    /\ blog.state # "published"
    /\ (u = NoUser \/ blog.author # u)

\* blog.author._id of a populated author that is null: a TypeError
DraftThrows(u, blog) ==
    /\ blog.state # "published"
    /\ u # NoUser
    /\ ~Populated(blog)

\* a seeded fault for C3: a view counted only the first time
Viewed_Once(blog) == [blog EXCEPT !.read_count = IF @ = 0 THEN 1 ELSE @]

\* blog.read_count += 1
Viewed(blog) == [blog EXCEPT !.read_count = @ + 1]

getBlog(u, id) ==
    IF id \notin Ids
    THEN /\ last' = Respond("getBlog", u, id, 404, {})
         /\ UNCHANGED <<blogs, nextId>>
    ELSE LET blog == blogs[id] IN
         IF DraftThrows(u, blog)
         THEN /\ last' = Respond("getBlog", u, id, errorHandler("TypeError"), {})
              /\ UNCHANGED <<blogs, nextId>>
         ELSE IF DraftDenied(u, blog)
         THEN /\ last' = Respond("getBlog", u, id, 403, {})
              /\ UNCHANGED <<blogs, nextId>>
         ELSE \/ /\ blog.read_count < MaxReads
                 /\ blogs' = [blogs EXCEPT ![id] = Viewed(blog)]
                 /\ last' = Respond("getBlog", u, id, 200, {Viewed(blog)})
                 /\ UNCHANGED nextId
              \* blog.save() validates the required path author, which holds
              \* null after populate found no user: versions of the store
              \* library differ on whether that fails
              \/ /\ ~Populated(blog)
                 /\ last' = Respond("getBlog", u, id, errorHandler("ValidationError"), {})
                 /\ UNCHANGED <<blogs, nextId>>

---------------------------------------------------------------------------
\* The ownership check of updateBlog, updateBlogState and deleteBlog

\* a seeded fault for C2: any authenticated user passes as the owner
IsOwner_Any(u, blog) == u \in Users

\* blog.author.toString() !== req.user._id.toString(), negated
IsOwner(u, blog) == blog.author = u

---------------------------------------------------------------------------
\* PUT /api/blogs/:id (protect, updateBlog)

\* the fields of the schema a request body can set
PatchFields ==
    {"title", "description", "tags", "body", "author", "state",
     "read_count", "reading_time"}

\* runValidators: true: the validators of the paths the update sets
PatchValid(patch) ==
    /\ Has(patch, "title") => Trim(patch.title) # <<>>
    /\ Has(patch, "body") => patch.body # <<>>
    /\ Has(patch, "state") => patch.state \in States

\* the value a path takes from the update, after its setters
Cast(f, v) ==
    CASE f = "title" -> Trim(v)
      [] f = "description" -> {Trim(v)}
      [] f = "tags" -> TrimAll(v)
      [] OTHER -> v

\* a seeded fault for C20: an update that replaces the document, so that a
\* path the body does not carry falls back to its default
Updated_Replace(blog, patch) ==
    [f \in DOMAIN blog |-> IF f \in PatchFields /\ Has(patch, f)
                           THEN Cast(f, patch[f])
                           ELSE IF f = "read_count" THEN 0 ELSE blog[f]]

\* Blog.findByIdAndUpdate(id, req.body, {new: true, runValidators: true}):
\* $set of every schema path of the body; no save middleware runs
Updated(blog, patch) ==
    [f \in DOMAIN blog |-> IF f \in PatchFields /\ Has(patch, f)
                           THEN Cast(f, patch[f]) ELSE blog[f]]

updateBlog(u, id, patch) ==
    IF id \notin Ids
    THEN /\ last' = Respond("updateBlog", u, id, 404, {})
         /\ UNCHANGED <<blogs, nextId>>
    ELSE LET blog == blogs[id] IN
         IF ~IsOwner(u, blog)
         THEN /\ last' = Respond("updateBlog", u, id, 403, {})
              /\ UNCHANGED <<blogs, nextId>>
         ELSE IF ~PatchValid(patch)
         THEN /\ last' = Respond("updateBlog", u, id, errorHandler("ValidationError"), {})
              /\ UNCHANGED <<blogs, nextId>>
         ELSE IF Has(patch, "title") /\ ~TitleFree(Trim(patch.title), id)
         THEN /\ last' = Respond("updateBlog", u, id, errorHandler("DuplicateKey"), {})
              /\ UNCHANGED <<blogs, nextId>>
         ELSE /\ blogs' = [blogs EXCEPT ![id] = Updated(blog, patch)]
              /\ last' = Respond("updateBlog", u, id, 200, {Updated(blog, patch)})
              /\ UNCHANGED nextId

---------------------------------------------------------------------------
\* PATCH /api/blogs/:id/state (protect, updateBlogState)

\* a seeded fault for C8: any state given in the body is accepted
ValidState_AnyString(body) == Has(body, "state")

\* ["draft", "published"].includes(state)
ValidState(body) == Has(body, "state") /\ body.state \in States

updateBlogState(u, id, body) ==
    IF ~ValidState(body)
    THEN /\ last' = Respond("updateBlogState", u, id, 400, {})
         /\ UNCHANGED <<blogs, nextId>>
    ELSE IF id \notin Ids
    THEN /\ last' = Respond("updateBlogState", u, id, 404, {})
         /\ UNCHANGED <<blogs, nextId>>
    ELSE LET blog == blogs[id]
             saved == [blog EXCEPT !.state = body.state]
         IN
         IF ~IsOwner(u, blog)
         THEN /\ last' = Respond("updateBlogState", u, id, 403, {})
              /\ UNCHANGED <<blogs, nextId>>
         ELSE /\ blogs' = [blogs EXCEPT ![id] = saved]
              /\ last' = Respond("updateBlogState", u, id, 200, {saved})
              /\ UNCHANGED nextId

---------------------------------------------------------------------------
\* DELETE /api/blogs/:id (protect, deleteBlog)

deleteBlog(u, id) ==
    IF id \notin Ids
    THEN /\ last' = Respond("deleteBlog", u, id, 404, {})
         /\ UNCHANGED <<blogs, nextId>>
    ELSE IF ~IsOwner(u, blogs[id])
    THEN /\ last' = Respond("deleteBlog", u, id, 403, {})
         /\ UNCHANGED <<blogs, nextId>>
    ELSE /\ blogs' = [j \in Ids \ {id} |-> blogs[j]]
         /\ last' = Respond("deleteBlog", u, id, 200, {})
         /\ UNCHANGED nextId

---------------------------------------------------------------------------
\* The listings: GET /api/blogs (getPublishedBlogs) and
\* GET /api/blogs/user/me (protect, getUserBlogs)

\* the User collection (signup is the only writer; users are never removed)
UserDocs ==
    [u \in Users |->
        IF u = "u1" THEN [first_name |-> <<"A", "n">>, last_name |-> <<"L", "i">>]
                    ELSE [first_name |-> <<"B", "o">>, last_name |-> <<"L", "i">>]]

\* req.query[f]: the set holding the string, or Undefined
Param(q, f) == IF Has(q, f) THEN {q[f]} ELSE Undefined

\* if (req.query[f]): the parameter is given and is not the empty string
Truthy(q, f) == Has(q, f) /\ q[f] # <<>>

\* the same for order_by and state, which are only compared with names and
\* are kept as whole strings
TruthyName(q, f) == Has(q, f) /\ q[f] # ""

Page(q) == OrDefault(parseInt(Param(q, "page")), 1)
Limit(q) == OrDefault(parseInt(Param(q, "limit")), 20)

\* User.findOne({$or: [{first_name: /author/i}, {last_name: /author/i}]}):
\* the values query.author may take, {} standing for "not set"; findOne
\* yields one of the matching users, which one is the store's choice
AuthorFilters(q) ==
    LET found == {u \in Users :
                    \/ RegExpI(q.author, UserDocs[u].first_name)
                    \/ RegExpI(q.author, UserDocs[u].last_name)}
    IN  IF ~Truthy(q, "author") \/ found = {} THEN {{}}
        ELSE {{u} : u \in found}

\* a seeded fault for C10: a query that does not fix the state
BaseQuery_Any(blog) == TRUE

\* const query = { state: "published" }
BaseQuery(blog) == blog.state = "published"

\* the query of getPublishedBlogs, with query.author as found
PublishedQuery(blog, q, author) ==
    /\ BaseQuery(blog)
    /\ author # {} => blog.author \in author
    /\ Truthy(q, "title") => RegExpI(q.title, blog.title)
    /\ Truthy(q, "tags") =>
          \E i \in DOMAIN blog.tags : blog.tags[i] \in SplitComma(q.tags)

validSortFields == {"read_count", "reading_time", "createdAt"}

\* sortOption, as the set of its keys (every key sorts descending)
SortOption(q) ==
    IF TruthyName(q, "order_by")
    THEN IF q.order_by \in validSortFields THEN {q.order_by} ELSE {}
    ELSE {"createdAt"}

\* the orders in which the store may return the documents S under sort:
\* descending in every sort key, ties and the unsorted case in any order
Orders(S, sort) ==
    {o \in [1..Cardinality(S) -> S] :
        /\ \A i, j \in DOMAIN o : i # j => o[i] # o[j]
        /\ \A k \in sort : \A i, j \in DOMAIN o :
              i < j => blogs[o[i]][k] >= blogs[o[j]][k]}

Abs(n) == IF n < 0 THEN 0 - n ELSE n

\* .limit(limit).skip(skip) of the documents in order o; the driver sends a
\* negative limit as its absolute value
Window(o, skip, limit) ==
    LET first == skip + 1
        lastIx == IF skip + Abs(limit) < Len(o) THEN skip + Abs(limit) ELSE Len(o)
    IN  [i \in 1..(IF lastIx >= first THEN lastIx - first + 1 ELSE 0) |->
            blogs[o[first + i - 1]]]

ListRespond(op, u, items, total, page, limit) ==
    [op |-> op, user |-> u, id |-> 0, status |-> 200, data |-> {},
     items |-> items, count |-> Len(items), total |-> total,
     page |-> page, pages |-> Ceil(total, limit)]

\* Blog.find(query).sort(..).limit(..).skip(..), Blog.countDocuments(query)
\* and the response; the store refuses a negative skip
List(op, u, matching, sort, q) ==
    LET page == Page(q)
        limit == Limit(q)
        skip == (page - 1) * limit
    IN  /\ UNCHANGED <<blogs, nextId>>
        /\ IF skip < 0
           THEN last' = Respond(op, u, 0, errorHandler("MongoServerError"), {})
           ELSE \E o \in Orders(matching, sort) :
                  last' = ListRespond(op, u, Window(o, skip, limit),
                                      Cardinality(matching), page, limit)

getPublishedBlogs(q) ==
    \E author \in AuthorFilters(q) :
        List("getPublishedBlogs", NoUser,
             {id \in Ids : PublishedQuery(blogs[id], q, author)},
             SortOption(q), q)

\* the query of getUserBlogs
UserQuery(blog, u, q) ==
    /\ blog.author = u
    /\ TruthyName(q, "state") => blog.state = q.state

getUserBlogs(u, q) ==
    List("getUserBlogs", u, {id \in Ids : UserQuery(blogs[id], u, q)},
         {"createdAt"}, q)

---------------------------------------------------------------------------
\* Request inputs

TitleA == <<"A">>
TitleB == <<"B">>
\* " A ": trims to TitleA
TitleAPadded == <<" ", "A", " ">>
Blank == <<" ">>
Empty == <<>>

\* POST bodies: well-formed ones, ones with a required field missing or
\* empty, and one with fields createBlog does not read
CreateBodies ==
    {[title |-> t, body |-> Words(1)] : t \in {TitleA, TitleAPadded, TitleB}}
    \cup {[body |-> Words(1)], [title |-> Empty, body |-> Words(1)],
          [title |-> Blank, body |-> Words(1)],
          [title |-> TitleA], [title |-> TitleA, body |-> Empty]}
    \cup {[title |-> TitleB, body |-> Words(1), state |-> "published",
           read_count |-> 1, author |-> "u2", reading_time |-> 0]}

\* PUT bodies that do not carry read_count
ViewPatches ==
    {[title |-> t] : t \in {TitleB, TitleAPadded, Empty}}
    \cup {[author |-> a] : a \in {"u2", GhostUser}}
    \cup {[state |-> s] : s \in {"published", "archived"}}

\* PUT bodies
Patches == ViewPatches \cup {[read_count |-> 0]}

\* PATCH bodies: a valid state, an invalid one, none
StateBodies ==
    {[state |-> "draft"], [state |-> "published"], [state |-> "archived"], <<>>}

Requesters == Users \cup {NoUser}

---------------------------------------------------------------------------
\* The blog lifecycle: every request is served whole, one after the other

Next ==
    \/ \E u \in Users, body \in CreateBodies :
          createBlog(u, body) /\ UNCHANGED <<views, pending>>
    \/ \E u \in Requesters, id \in AllIds :
          getBlog(u, id) /\ UNCHANGED <<views, pending>>
    \/ \E u \in Users, id \in AllIds, patch \in Patches :
          updateBlog(u, id, patch) /\ UNCHANGED <<views, pending>>
    \/ \E u \in Users, id \in AllIds, body \in StateBodies :
          updateBlogState(u, id, body) /\ UNCHANGED <<views, pending>>
    \/ \E u \in Users, id \in AllIds :
          deleteBlog(u, id) /\ UNCHANGED <<views, pending>>

Spec == Init /\ [][Next]_vars

---------------------------------------------------------------------------
\* The same lifecycle without a PUT body that carries read_count, with the
\* 200 responses of getBlog counted per blog

CountViews ==
    views' =
        IF last'.op = "createBlog" /\ last'.status = 201
        THEN (last'.id :> 0) @@ views
        ELSE IF last'.op = "getBlog" /\ last'.status = 200
        THEN [views EXCEPT ![last'.id] = @ + 1]
        ELSE IF last'.op = "deleteBlog" /\ last'.status = 200
        THEN [j \in DOMAIN views \ {last'.id} |-> views[j]]
        ELSE views

NextViews ==
    \/ \E u \in Users, body \in CreateBodies :
          createBlog(u, body) /\ CountViews /\ UNCHANGED pending
    \/ \E u \in Requesters, id \in AllIds :
          getBlog(u, id) /\ CountViews /\ UNCHANGED pending
    \/ \E u \in Users, id \in AllIds, patch \in ViewPatches :
          updateBlog(u, id, patch) /\ CountViews /\ UNCHANGED pending
    \/ \E u \in Users, id \in AllIds, body \in StateBodies :
          updateBlogState(u, id, body) /\ CountViews /\ UNCHANGED pending
    \/ \E u \in Users, id \in AllIds :
          deleteBlog(u, id) /\ CountViews /\ UNCHANGED pending

SpecViews == Init /\ [][NextViews]_vars

---------------------------------------------------------------------------
\* The lifecycle over the content fields: bodies on both sides of a minute
\* boundary, and PUT bodies that carry body, reading_time, description, tags

Padded(s) == <<" ">> \o s \o <<" ">>

ContentCreateBodies ==
    {[title |-> TitleA, body |-> b] :
        b \in {Words(1), Words(wordsPerMinute + 1), Blank}}
    \cup {[title |-> TitleB, body |-> Words(wordsPerMinute)]}

ContentPatches ==
    {[body |-> b] : b \in {Words(1), Words(wordsPerMinute + 1), Empty}}
    \cup {[reading_time |-> 0],
          [description |-> Padded(<<"d">>), tags |-> <<Padded(<<"x">>), <<"y">>>>]}

NextContent ==
    \/ \E body \in ContentCreateBodies :
          createBlog("u1", body) /\ UNCHANGED <<views, pending>>
    \/ \E u \in Users, id \in AllIds, patch \in ContentPatches :
          updateBlog(u, id, patch) /\ UNCHANGED <<views, pending>>
    \/ \E u \in Users, id \in AllIds :
          updateBlogState(u, id, [state |-> "published"]) /\ UNCHANGED <<views, pending>>
    \/ \E u \in Users, id \in AllIds :
          deleteBlog(u, id) /\ UNCHANGED <<views, pending>>

SpecContent == Init /\ [][NextContent]_vars

---------------------------------------------------------------------------
\* The listings over a collection of drafts and published blogs of both
\* users, with and without tags and with different read counts

ListCreateBodies ==
    {[title |-> TitleA, body |-> Words(1), tags |-> <<<<"x">>>>],
     [title |-> TitleB, body |-> Words(1)]}

NoParam == <<>>

\* the filter and sort parameters, in every combination
FilterQueries ==
    {o @@ t @@ g @@ a :
        o \in {NoParam, [order_by |-> "read_count"], [order_by |-> "title"]},
        t \in {NoParam, [title |-> <<"a">>]},
        g \in {NoParam, [tags |-> <<"x", ",", "y">>]},
        a \in {NoParam, [author |-> <<"l", "I">>], [author |-> <<"z">>]}}

\* the paging parameters, in every combination
PageQueries ==
    {p @@ l :
        p \in {NoParam, [page |-> <<"2">>], [page |-> <<"0">>],
                [page |-> <<"-", "1">>]},
        l \in {NoParam, [limit |-> <<"1">>], [limit |-> <<"x">>],
                [limit |-> <<"-", "1">>]}}

ListQueries ==
    FilterQueries \cup PageQueries
    \cup {p @@ [tags |-> <<"x">>, order_by |-> "createdAt"] : p \in PageQueries}

UserQueries ==
    {NoParam, [state |-> "draft"], [limit |-> <<"1">>],
     [page |-> <<"2">>, limit |-> <<"1">>], [limit |-> <<"-", "1">>]}

NextList ==
    \/ \E u \in Users, body \in ListCreateBodies :
          createBlog(u, body) /\ UNCHANGED <<views, pending>>
    \/ \E id \in AllIds :
          getBlog(NoUser, id) /\ UNCHANGED <<views, pending>>
    \/ \E u \in Users, id \in AllIds, s \in States :
          updateBlogState(u, id, [state |-> s]) /\ UNCHANGED <<views, pending>>
    \/ \E q \in ListQueries :
          getPublishedBlogs(q) /\ UNCHANGED <<views, pending>>
    \/ \E u \in Users, q \in UserQueries :
          getUserBlogs(u, q) /\ UNCHANGED <<views, pending>>

SpecList == Init /\ [][NextList]_vars

---------------------------------------------------------------------------
\* middleware/auth: protect and optionalAuth in front of the handlers

\* what the Authorization header carries: nothing (or no Bearer token), a
\* string that is no token of this server, an expired token, or a valid
\* token signed for a user id
NoToken == [kind |-> "none", id |-> NoUser]
Tokens ==
    {NoToken, [kind |-> "malformed", id |-> NoUser], [kind |-> "expired", id |-> "u1"]}
    \cup {[kind |-> "valid", id |-> u] : u \in Users \cup {GhostUser}}

\* if (!token): the header is absent, does not start with Bearer, or has
\* nothing after the blank
HasToken(tok) == tok.kind # "none"

\* a seeded fault for C15: a verification that ignores the expiry
jwtVerify_NoExpiry(tok) == tok.kind \in {"valid", "expired"}

\* jwt.verify(token, JWT_SECRET) returns (it throws otherwise)
jwtVerify(tok) == tok.kind = "valid"

\* User.findById(decoded.id): the user, or null
findById(id) == IF id \in Users THEN id ELSE NoUser

\* req.user as protect and optionalAuth set it
ReqUser(tok) ==
    IF HasToken(tok) /\ jwtVerify(tok) THEN findById(tok.id) ELSE NoUser

\* protect: 401 without a token, with a token that does not verify and with
\* a token of no user; next() otherwise, which runs the handler
protect(tok, op, id, handler) ==
    IF ~HasToken(tok) \/ ~jwtVerify(tok) \/ ReqUser(tok) = NoUser
    THEN /\ last' = Respond(op, NoUser, id, 401, {})
         /\ UNCHANGED <<blogs, nextId>>
    ELSE handler

\* a seeded fault for C21: a token that is decoded and not verified
optionalAuth_Decode(tok) ==
    IF HasToken(tok) /\ tok.kind \in {"valid", "expired"}
    THEN findById(tok.id) ELSE NoUser

\* optionalAuth: req.user when it calls next(), which it always does:
\* undefined without a Bearer token, null when jwt.verify throws, and what
\* User.findById yields otherwise (null for the id of no user)
optionalAuth(tok) ==
    IF HasToken(tok)
    THEN IF jwtVerify(tok) THEN findById(tok.id) ELSE NoUser
    ELSE NoUser

\* the routes of the router
PostBlog(tok, body) ==
    protect(tok, "createBlog", 0, createBlog(ReqUser(tok), body))
GetUserMe(tok, q) ==
    protect(tok, "getUserBlogs", 0, getUserBlogs(ReqUser(tok), q))
GetBlogById(tok, id) == getBlog(optionalAuth(tok), id)
PutBlog(tok, id, patch) ==
    protect(tok, "updateBlog", id, updateBlog(ReqUser(tok), id, patch))
PatchBlogState(tok, id, body) ==
    protect(tok, "updateBlogState", id, updateBlogState(ReqUser(tok), id, body))
DeleteBlogById(tok, id) ==
    protect(tok, "deleteBlog", id, deleteBlog(ReqUser(tok), id))

AuthCreateBodies == {[title |-> TitleA, body |-> Words(1)], [title |-> TitleB]}
AuthPatches == {[title |-> TitleB], [read_count |-> 0]}
AuthStateBodies == {[state |-> "published"], [state |-> "archived"]}
AuthQueries == {NoParam, [state |-> "draft"]}

NextAuth ==
    \/ \E tok \in Tokens, body \in AuthCreateBodies :
          PostBlog(tok, body) /\ UNCHANGED <<views, pending>>
    \/ \E tok \in Tokens, q \in AuthQueries :
          GetUserMe(tok, q) /\ UNCHANGED <<views, pending>>
    \/ \E tok \in Tokens, id \in AllIds :
          GetBlogById(tok, id) /\ UNCHANGED <<views, pending>>
    \/ \E tok \in Tokens, id \in AllIds, patch \in AuthPatches :
          PutBlog(tok, id, patch) /\ UNCHANGED <<views, pending>>
    \/ \E tok \in Tokens, id \in AllIds, body \in AuthStateBodies :
          PatchBlogState(tok, id, body) /\ UNCHANGED <<views, pending>>
    \/ \E tok \in Tokens, id \in AllIds :
          DeleteBlogById(tok, id) /\ UNCHANGED <<views, pending>>

SpecAuth == Init /\ [][NextAuth]_vars

---------------------------------------------------------------------------
\* The handlers as the event loop runs them: each await is a point where
\* the requests of other clients are served.  A handler that reads its blog
\* (findById) and writes it later is two steps, the request parked in
\* pending between them; a handler that answers after its read is one step.
\* The reads write nothing, so every interleaving of two requests is that
\* of one request with the other served whole between its read and its
\* write.

\* the request of client c, parked after its read
Parked(c, op, u, id, doc, body) ==
    /\ pending' = [pending EXCEPT ![c] =
                      [op |-> op, user |-> u, id |-> id, doc |-> doc, body |-> body]]
    /\ UNCHANGED <<blogs, nextId, last>>

\* the handler of client c has answered
Done(c) == pending' = [pending EXCEPT ![c] = Idle]

\* a seeded fault for C16: a save that writes the whole document, inserting
\* it when the store has none with its _id
SetPaths_Upsert(id, doc, paths) == (id :> doc) @@ blogs

\* doc.save() of a document that was read from the store:
\* updateOne({_id: id}, {$set: the modified paths}), the collection after it
SetPaths(id, doc, paths) ==
    IF id \in Ids
    THEN [blogs EXCEPT ![id] =
             [f \in DOMAIN @ |-> IF f \in paths THEN doc[f] ELSE @[f]]]
    ELSE blogs

\* getBlog up to its save: findById, populate and the draft check
getBlog_find(c, u, id) ==
    /\ pending[c] = Idle
    /\ IF id \notin Ids
       THEN /\ last' = Respond("getBlog", u, id, 404, {})
            /\ UNCHANGED <<blogs, nextId, pending>>
       ELSE LET blog == blogs[id] IN
            IF DraftThrows(u, blog)
            THEN /\ last' = Respond("getBlog", u, id, errorHandler("TypeError"), {})
                 /\ UNCHANGED <<blogs, nextId, pending>>
            ELSE IF DraftDenied(u, blog)
            THEN /\ last' = Respond("getBlog", u, id, 403, {})
                 /\ UNCHANGED <<blogs, nextId, pending>>
            ELSE /\ blog.read_count < MaxReads
                 /\ Parked(c, "getBlog", u, id, Viewed(blog), <<>>)

\* await blog.save() of getBlog and the response: the save fails with
\* DocumentNotFoundError when the store has no document with the _id
getBlog_save(c) ==
    LET r == pending[c] IN
    /\ r.op = "getBlog"
    /\ Done(c)
    /\ UNCHANGED nextId
    /\ \/ /\ blogs' = SetPaths(r.id, r.doc, {"read_count"})
          /\ last' = IF r.id \in Ids
                     THEN Respond("getBlog", r.user, r.id, 200, {r.doc})
                     ELSE Respond("getBlog", r.user, r.id,
                                  errorHandler("DocumentNotFoundError"), {})
       \/ /\ ~Populated(r.doc)
          /\ last' = Respond("getBlog", r.user, r.id, errorHandler("ValidationError"), {})
          /\ UNCHANGED blogs

\* updateBlog up to findByIdAndUpdate
updateBlog_find(c, u, id, patch) ==
    /\ pending[c] = Idle
    /\ IF id \notin Ids
       THEN /\ last' = Respond("updateBlog", u, id, 404, {})
            /\ UNCHANGED <<blogs, nextId, pending>>
       ELSE IF ~IsOwner(u, blogs[id])
       THEN /\ last' = Respond("updateBlog", u, id, 403, {})
            /\ UNCHANGED <<blogs, nextId, pending>>
       ELSE Parked(c, "updateBlog", u, id, <<>>, patch)

\* await Blog.findByIdAndUpdate(..) and the response: the update applies to
\* the document as stored now, and yields null when there is none
updateBlog_write(c) ==
    LET r == pending[c] IN
    /\ r.op = "updateBlog"
    /\ Done(c)
    /\ UNCHANGED nextId
    /\ IF ~PatchValid(r.body)
       THEN /\ last' = Respond("updateBlog", r.user, r.id, errorHandler("ValidationError"), {})
            /\ UNCHANGED blogs
       ELSE IF r.id \notin Ids
       THEN /\ last' = Respond("updateBlog", r.user, r.id, 200, {})
            /\ UNCHANGED blogs
       ELSE IF Has(r.body, "title") /\ ~TitleFree(Trim(r.body.title), r.id)
       THEN /\ last' = Respond("updateBlog", r.user, r.id, errorHandler("DuplicateKey"), {})
            /\ UNCHANGED blogs
       ELSE /\ blogs' = [blogs EXCEPT ![r.id] = Updated(@, r.body)]
            /\ last' = Respond("updateBlog", r.user, r.id, 200, {Updated(blogs[r.id], r.body)})

\* updateBlogState up to its save
updateBlogState_find(c, u, id, body) ==
    /\ pending[c] = Idle
    /\ IF ~ValidState(body)
       THEN /\ last' = Respond("updateBlogState", u, id, 400, {})
            /\ UNCHANGED <<blogs, nextId, pending>>
       ELSE IF id \notin Ids
       THEN /\ last' = Respond("updateBlogState", u, id, 404, {})
            /\ UNCHANGED <<blogs, nextId, pending>>
       ELSE IF ~IsOwner(u, blogs[id])
       THEN /\ last' = Respond("updateBlogState", u, id, 403, {})
            /\ UNCHANGED <<blogs, nextId, pending>>
       ELSE Parked(c, "updateBlogState", u, id,
                   [blogs[id] EXCEPT !.state = body.state], body)

\* await blog.save() of updateBlogState and the response; a save with no
\* modified path writes nothing, and versions of the store library differ
\* on whether it then looks for the document
updateBlogState_save(c) ==
    LET r == pending[c] IN
    /\ r.op = "updateBlogState"
    /\ Done(c)
    /\ UNCHANGED nextId
    /\ blogs' = SetPaths(r.id, r.doc, {"state"})
    /\ \/ last' = IF r.id \in Ids
                  THEN Respond("updateBlogState", r.user, r.id, 200, {r.doc})
                  ELSE Respond("updateBlogState", r.user, r.id,
                               errorHandler("DocumentNotFoundError"), {})
       \/ /\ r.id \notin Ids
          /\ last' = Respond("updateBlogState", r.user, r.id, 200, {r.doc})

\* deleteBlog up to deleteOne
deleteBlog_find(c, u, id) ==
    /\ pending[c] = Idle
    /\ IF id \notin Ids
       THEN /\ last' = Respond("deleteBlog", u, id, 404, {})
            /\ UNCHANGED <<blogs, nextId, pending>>
       ELSE IF ~IsOwner(u, blogs[id])
       THEN /\ last' = Respond("deleteBlog", u, id, 403, {})
            /\ UNCHANGED <<blogs, nextId, pending>>
       ELSE Parked(c, "deleteBlog", u, id, <<>>, <<>>)

\* await blog.deleteOne() and the response
deleteBlog_deleteOne(c) ==
    LET r == pending[c] IN
    /\ r.op = "deleteBlog"
    /\ Done(c)
    /\ UNCHANGED nextId
    /\ blogs' = [j \in Ids \ {r.id} |-> blogs[j]]
    /\ last' = Respond("deleteBlog", r.user, r.id, 200, {})

ConcCreateBodies == {[title |-> t, body |-> Words(1)] : t \in {TitleA, TitleB}}
\* a PUT body that touches title, description and tags only
ConcPatches ==
    {[title |-> TitleB, description |-> <<"d">>, tags |-> <<<<"x">>>>]}

NextConc ==
    \/ \E body \in ConcCreateBodies :
          createBlog("u1", body) /\ UNCHANGED <<views, pending>>
    \/ \E c \in Clients, id \in AllIds :
          getBlog_find(c, "u1", id) /\ UNCHANGED views
    \/ \E c \in Clients :
          getBlog_save(c) /\ UNCHANGED views
    \/ \E c \in Clients, id \in AllIds, patch \in ConcPatches :
          updateBlog_find(c, "u1", id, patch) /\ UNCHANGED views
    \/ \E c \in Clients :
          updateBlog_write(c) /\ UNCHANGED views
    \/ \E c \in Clients, id \in AllIds :
          updateBlogState_find(c, "u1", id, [state |-> "published"])
             /\ UNCHANGED views
    \/ \E c \in Clients :
          updateBlogState_save(c) /\ UNCHANGED views
    \/ \E c \in Clients, id \in AllIds :
          deleteBlog_find(c, "u1", id) /\ UNCHANGED views
    \/ \E c \in Clients :
          deleteBlog_deleteOne(c) /\ UNCHANGED views
    \* the requests of the other clients
    \/ \E id \in AllIds :
          getBlog("u1", id) /\ UNCHANGED <<views, pending>>
    \/ \E id \in AllIds, patch \in ConcPatches :
          updateBlog("u1", id, patch) /\ UNCHANGED <<views, pending>>
    \/ \E id \in AllIds :
          updateBlogState("u1", id, [state |-> "published"])
             /\ UNCHANGED <<views, pending>>
    \/ \E id \in AllIds :
          deleteBlog("u1", id) /\ UNCHANGED <<views, pending>>

SpecConc == Init /\ [][NextConc]_vars

---------------------------------------------------------------------------
\* Claims about the single-blog handlers

\* the blog a step leaves stored, before and after
Kept == Ids \cap DOMAIN blogs'

\* the last response answers request op on blog id
Answered(op, id) == last.op = op /\ last.id = id

\* C1: on a draft blog getBlog succeeds only for the blog's author; every
\* other requester, the anonymous one included, gets 403, and the refused
\* call leaves the collection as it was.
C1_DraftOnlyForAuthor ==
    [][\A id \in Ids :
         (Answered("getBlog", id)' /\ blogs[id].state = "draft") =>
            /\ last'.status = 200 => last'.user = blogs[id].author
            /\ last'.user # blogs[id].author =>
                   (last'.status = 403 /\ blogs' = blogs)]_vars

\* C2: updateBlog, updateBlogState with a valid state, and deleteBlog by an
\* authenticated user who is not the author of an existing blog answer 403
\* and leave the collection, that blog included, exactly as it was.
C2_NonOwnerRefused ==
    [][\A id \in Ids :
         (last'.id = id /\ last'.user \in Users \ {blogs[id].author}) =>
            /\ last'.op \in {"updateBlog", "deleteBlog"} =>
                  (last'.status = 403 /\ blogs' = blogs)
            /\ last'.op = "updateBlogState" =>
                  \A body \in StateBodies :
                     (/\ "state" \in DOMAIN body
                      /\ body.state \in {"draft", "published"}
                      /\ updateBlogState(last'.user, id, body))
                        => (last'.status = 403 /\ blogs' = blogs)]_vars

\* a non-owner's update, state change and delete were each refused
C2_Witness ==
    /\ last.op \in {"updateBlog", "updateBlogState", "deleteBlog"}
    /\ last.status = 403
    /\ last.id \in Ids
    /\ last.user \in Users \ {blogs[last.id].author}
    /\ blogs[last.id].state = "published"

\* C3: every 200 response of getBlog has raised the blog's read_count by
\* exactly 1 and carries the raised value, whoever asked: a blog's read_count
\* is the number of 200 responses of getBlog for it since its creation.
C3_EveryViewCounts ==
    /\ \A id \in Ids : blogs[id].read_count = views[id]
    /\ (last.op = "getBlog" /\ last.status = 200) =>
          (last.id \in Ids /\ last.data = {blogs[last.id]})

\* the author's second view of their own draft
C3_Witness ==
    /\ last.op = "getBlog" /\ last.status = 200
    /\ blogs[last.id].state = "draft"
    /\ last.user = blogs[last.id].author
    /\ views[last.id] = 2
    /\ \A d \in last.data : d.read_count = 2

\* C4: a blog's read_count never decreases and changes only by a 200
\* response of getBlog for that blog.
C4_ReadCountOnlyByView ==
    [][\A id \in Kept :
         /\ blogs'[id].read_count >= blogs[id].read_count
         /\ blogs'[id].read_count # blogs[id].read_count =>
               (Answered("getBlog", id)' /\ last'.status = 200)]_vars

\* C5: every stored blog's reading_time is ceil(word_count(body) / 200) of
\* its stored body, the words counted as the pre("save") hook counts them.
C5_ReadingTimeFresh ==
    \A id \in Ids : blogs[id].reading_time = ReadingTime(blogs[id].body)

\* C6: the author of a stored blog never changes.
C6_AuthorFixed ==
    [][\A id \in Kept : blogs'[id].author = blogs[id].author]_vars

\* C7: a blog's state is draft or published, and it changes only by a 200
\* response of updateBlogState to the blog's author.
C7_StateOnlyByTransition ==
    [][/\ \A id \in DOMAIN blogs' : blogs'[id].state \in {"draft", "published"}
       /\ \A id \in Kept :
            blogs'[id].state # blogs[id].state =>
               /\ Answered("updateBlogState", id)'
               /\ last'.status = 200
               /\ last'.user = blogs[id].author]_vars

\* C8: updateBlogState with a state outside {draft, published}, or with
\* none, answers 400 and changes nothing, for the owner, for a non-owner
\* and for an id that names no blog.
C8_InvalidStateRejected ==
    [][last'.op = "updateBlogState" =>
         \A body \in StateBodies :
            (/\ ~("state" \in DOMAIN body /\ body.state \in {"draft", "published"})
             /\ updateBlogState(last'.user, last'.id, body))
               => (last'.status = 400 /\ blogs' = blogs)]_vars

\* the owner's request with an invalid state was refused
C8_Witness ==
    /\ last.op = "updateBlogState" /\ last.status = 400
    /\ last.id \in Ids
    /\ last.user = blogs[last.id].author

\* the request body of a createBlog that must fail
Rejectable(body) ==
    \/ "title" \notin DOMAIN body
    \/ "body" \notin DOMAIN body
    \/ body.title = <<>>
    \/ body.body = <<>>
    \/ \E j \in Ids : blogs[j].title = body.title

\* no two stored blogs share a title
TitlesUnique ==
    \A i \in Ids, j \in Ids : i # j => blogs[i].title # blogs[j].title

\* a 201 response of createBlog carries the stored blog: a draft with
\* read_count 0 whose author is the requester
CreatedAsDraft ==
    (last.op = "createBlog" /\ last.status = 201) =>
        /\ last.id \in Ids
        /\ last.data = {blogs[last.id]}
        /\ blogs[last.id].state = "draft"
        /\ blogs[last.id].read_count = 0
        /\ blogs[last.id].author = last.user

\* C9: createBlog stores a draft with read_count 0 and the requester as
\* author, whatever else the body carries; with a missing or empty title or
\* body, or the title of a stored blog, it fails and stores nothing; no two
\* stored blogs share a title.
C9_CreateContract ==
    [][/\ CreatedAsDraft'
       /\ TitlesUnique'
       /\ last'.op = "createBlog" =>
            \A body \in CreateBodies :
               (Rejectable(body) /\ createBlog(last'.user, body)) =>
                  (last'.status # 201 /\ blogs' = blogs)]_vars

\* a blog was created from a body that also carried state, read_count and
\* author, beside another stored blog
C9_Witness ==
    /\ last.op = "createBlog" /\ last.status = 201
    /\ last.user = "u1"
    /\ blogs[last.id].title = TitleB
    /\ Cardinality(Ids) = 2

\* C10: a 200 response of getPublishedBlogs lists only stored blogs whose
\* state is published, each at most once, and its total counts no blog
\* that is not published, whatever the page, limit, order_by, title, tags
\* and author parameters.
C10_OnlyPublishedListed ==
    (last.op = "getPublishedBlogs" /\ last.status = 200) =>
        /\ \A i \in DOMAIN last.items :
              /\ last.items[i].state = "published"
              /\ \E id \in Ids : blogs[id] = last.items[i]
        /\ \A i, j \in DOMAIN last.items :
              i # j => last.items[i] # last.items[j]
        /\ last.count <= last.total
        /\ last.total <= Cardinality({id \in Ids : blogs[id].state = "published"})

\* the list holds the one published blog while a draft is stored beside it
C10_Witness ==
    /\ last.op = "getPublishedBlogs" /\ last.status = 200
    /\ last.count = 1 /\ last.total = 1
    /\ \E id \in Ids : blogs[id].state = "draft"

---------------------------------------------------------------------------
\* Claims about the listings

\* the users whose first or last name contains a, case ignored
AuthorUsers(a) ==
    {u \in Users : \/ RegExpI(a, UserDocs[u].first_name)
                   \/ RegExpI(a, UserDocs[u].last_name)}

\* requests that carry an author filter only: one that names both users,
\* one that names no user
AuthorQueries == {[author |-> <<"l", "I">>], [author |-> <<"z">>]}

\* the documents of a list response, as a set
Listed(r) == {r.items[i] : i \in DOMAIN r.items}

\* C11: with an author filter, getPublishedBlogs answers with exactly the
\* published blogs whose author is any user whose first or last name
\* contains the filter, case ignored; with no such user the list is empty
\* and total is 0.
C11_AuthorFilterExact ==
    [][last'.op = "getPublishedBlogs" =>
         \A q \in AuthorQueries :
            getPublishedBlogs(q) =>
               LET wanted == {id \in Ids : /\ blogs[id].state = "published"
                                           /\ blogs[id].author \in AuthorUsers(q.author)}
               IN  /\ last'.status = 200
                   /\ Listed(last') = {blogs[id] : id \in wanted}
                   /\ last'.total = Cardinality(wanted)]_vars

\* requests that carry order_by only, or nothing
SortQueries ==
    {NoParam, [order_by |-> "read_count"], [order_by |-> "title"]}

\* the sort key the listing is to use for request q
SortKey(q) ==
    IF Has(q, "order_by") /\ q.order_by \in validSortFields
    THEN q.order_by ELSE "createdAt"

\* C12: getPublishedBlogs lists the blogs in descending order of order_by
\* when that is read_count, reading_time or createdAt, and in descending
\* order of createdAt when order_by is absent or any other value.
C12_SortKeyDescending ==
    [][last'.op = "getPublishedBlogs" =>
         \A q \in SortQueries :
            getPublishedBlogs(q) =>
               /\ last'.status = 200
               /\ \A i, j \in DOMAIN last'.items :
                     i < j => last'.items[i][SortKey(q)] >= last'.items[j][SortKey(q)]]_vars

\* the parameter f of request q is absent, not a number, zero or negative
NonPositive(q, f) ==
    \/ parseInt(Param(q, f)) = {}
    \/ \E n \in parseInt(Param(q, f)) : n <= 0

\* page and limit of request q are the defaults where the parameter is not
\* positive, so both are at least 1 and the offset is at least 0
PagingDefaults(q) ==
    /\ NonPositive(q, "page") => Page(q) = 1
    /\ NonPositive(q, "limit") => Limit(q) = 20
    /\ Page(q) >= 1 /\ Limit(q) >= 1
    /\ (Page(q) - 1) * Limit(q) >= 0

\* C13: in both listings the page is 1 when the page parameter is absent,
\* not a number, zero or negative, and the limit is 20 likewise; the
\* response carries that page.
C13_PagingDefaults ==
    [][/\ last'.op = "getPublishedBlogs" =>
            \A q \in PageQueries :
               getPublishedBlogs(q) =>
                  (PagingDefaults(q) /\ last'.status = 200 /\ last'.page = Page(q))
       /\ last'.op = "getUserBlogs" =>
            \A q \in UserQueries :
               getUserBlogs(last'.user, q) =>
                  (PagingDefaults(q) /\ last'.status = 200 /\ last'.page = Page(q))]_vars

Min2(a, b) == IF a <= b THEN a ELSE b
Max2(a, b) == IF a >= b THEN a ELSE b

\* the list response r to a request with page p and limit L, T blogs
\* matching
PageOf(r, T, p, L) ==
    /\ r.status = 200
    /\ r.total = T
    /\ r.pages = Ceil(T, L)
    /\ r.count = Len(r.items)
    /\ r.count = Min2(L, Max2(0, T - (p - 1) * L))
    /\ p > r.pages => r.items = <<>>

\* C14: in both listings total is the number T of matching blogs, pages is
\* ceil(T / limit), count is the number of items returned, which is
\* min(limit, max(0, T - (page - 1) * limit)), and a page beyond pages is
\* empty.
C14_Pagination ==
    [][/\ last'.op = "getPublishedBlogs" =>
            \A q \in PageQueries :
               getPublishedBlogs(q) =>
                  PageOf(last', Cardinality({id \in Ids : blogs[id].state = "published"}),
                         Page(q), Limit(q))
       /\ last'.op = "getUserBlogs" =>
            \A q \in UserQueries :
               getUserBlogs(last'.user, q) =>
                  PageOf(last', Cardinality({id \in Ids : UserQuery(blogs[id], last'.user, q)}),
                         Page(q), Limit(q))]_vars

---------------------------------------------------------------------------
\* Claims about authentication

\* the tokens that identify no registered user
BadTokens == {tok \in Tokens : tok.kind # "valid" \/ tok.id \notin Users}

\* the response is 401 and the collection is as it was
Unauthenticated == last'.status = 401 /\ blogs' = blogs

\* C15: createBlog, getUserBlogs, updateBlog, updateBlogState and
\* deleteBlog without a token, with a malformed or expired token or with a
\* token of no user answer 401 and leave the collection as it was; a request
\* of a registered user is never answered 401, and on a blog of another
\* user it is answered 403.
C15_UnauthenticatedIs401 ==
    [][/\ last'.op = "createBlog" =>
            \A tok \in BadTokens, body \in AuthCreateBodies :
               PostBlog(tok, body) => Unauthenticated
       /\ last'.op = "getUserBlogs" =>
            \A tok \in BadTokens, q \in AuthQueries :
               GetUserMe(tok, q) => Unauthenticated
       /\ last'.op = "updateBlog" =>
            \A tok \in BadTokens, patch \in AuthPatches :
               PutBlog(tok, last'.id, patch) => Unauthenticated
       /\ last'.op = "updateBlogState" =>
            \A tok \in BadTokens, body \in AuthStateBodies :
               PatchBlogState(tok, last'.id, body) => Unauthenticated
       /\ last'.op = "deleteBlog" =>
            \A tok \in BadTokens :
               DeleteBlogById(tok, last'.id) => Unauthenticated
       /\ last'.user \in Users => last'.status # 401
       /\ \A id \in Ids :
            (/\ last'.op \in {"updateBlog", "deleteBlog"}
             /\ last'.id = id
             /\ last'.user \in Users \ {blogs[id].author})
               => last'.status = 403]_vars

\* a request on a stored blog was answered 401
C15_Witness ==
    /\ last.op \in {"updateBlog", "updateBlogState", "deleteBlog"}
    /\ last.status = 401
    /\ last.id \in Ids

\* C21: getBlog never answers 401: with a malformed or expired token, with
\* a token of no user and without a token it is served as for the anonymous
\* requester, so on a published blog it answers 200 with the read_count
\* raised by 1, and on a draft it answers 403 and changes nothing.
C21_BadTokenIsAnonymous ==
    [][last'.op = "getBlog" =>
         \A tok \in BadTokens :
            GetBlogById(tok, last'.id) =>
               /\ last'.status # 401
               /\ last'.id \notin Ids => last'.status = 404
               /\ last'.id \in Ids =>
                    IF blogs[last'.id].state = "published"
                    THEN /\ last'.status = 200
                         /\ blogs'[last'.id].read_count = blogs[last'.id].read_count + 1
                         /\ last'.data = {blogs'[last'.id]}
                    ELSE last'.status = 403 /\ blogs' = blogs]_vars

\* a request without a registered user was refused a draft that has been
\* read before
C21_Witness ==
    /\ last.op = "getBlog" /\ last.user = NoUser
    /\ last.status = 403
    /\ last.id \in Ids
    /\ blogs[last.id].state = "draft"
    /\ blogs[last.id].read_count > 0

---------------------------------------------------------------------------
\* Claims about the reading time

\* the number of non-empty tokens of s split on runs of whitespace
WordCount(s) ==
    Cardinality({i \in 1..Len(s) : ~IsWs(s[i]) /\ (i = 1 \/ IsWs(s[i - 1]))})

\* C18: the blog createBlog stores has reading_time = ceil(w / 200), w the
\* number of non-empty tokens of its body split on runs of whitespace:
\* blanks before and after add no word, and a body of blanks has w = 0.
C18_ReadingTimeOfWords ==
    (last.op = "createBlog" /\ last.status = 201) =>
        \A d \in last.data :
            d.reading_time = Ceil(WordCount(d.body), wordsPerMinute)

---------------------------------------------------------------------------
\* Claims about requests served at the same time

\* the step has answered a request (it has not parked one)
Answers == \A c \in Clients : pending'[c] = pending[c] \/ pending'[c] = Idle

\* the ids handed out whose blog is stored no more
Deleted == (1..nextId) \ Ids

\* C16: a blog that was deleted is never stored again, whatever is served
\* later: neither a new request nor the save of a getBlog or of an
\* updateBlogState that had read the blog before it was deleted.
C16_DeletedStaysDeleted ==
    [][\A id \in Deleted : id \notin DOMAIN blogs']_vars

\* a getBlog that had read the blog saved after the blog was deleted
C16_Witness ==
    /\ last.op = "getBlog"
    /\ last.status = errorHandler("DocumentNotFoundError")
    /\ last.id \in Deleted

\* C17: getBlog, updateBlog, updateBlogState with a valid state and
\* deleteBlog on an id that names no blog answer 404 and change nothing,
\* and a 200 response of updateBlog is for a blog that is stored when the
\* update is applied.
C17_AbsentIsNotFound ==
    [][/\ (/\ last'.op \in {"getBlog", "updateBlog", "updateBlogState", "deleteBlog"}
           /\ pending' = pending
           /\ last'.id \notin Ids)
             => (last'.status = 404 /\ blogs' = blogs)
       /\ (last'.op = "updateBlog" /\ last'.status = 200)
             => last'.id \in DOMAIN blogs']_vars

\* C19: every 200 response of getBlog leaves the stored read_count exactly
\* 1 above what was stored before it, also when another getBlog was served
\* between its read and its save, and no step lowers a read_count.
C19_NoLostView ==
    [][\A id \in Kept :
         /\ blogs'[id].read_count >= blogs[id].read_count
         /\ (Answers /\ Answered("getBlog", id)' /\ last'.status = 200) =>
               blogs'[id].read_count = blogs[id].read_count + 1]_vars

\* the fields a PUT body of title, description and tags leaves alone
FrameFields == {"body", "reading_time", "read_count", "state", "author"}

\* C20: updateBlog by the owner with a body of title, description and tags
\* only leaves body, reading_time, read_count, state and author of the blog
\* as they were, and a request on one blog leaves every other blog as it
\* was.
C20_FrameKept ==
    [][/\ \A patch \in ConcPatches :
            DOMAIN patch \subseteq {"title", "description", "tags"}
       /\ \A id \in Kept :
            /\ (Answers /\ Answered("updateBlog", id)' /\ last'.status = 200) =>
                  \A f \in FrameFields : blogs'[id][f] = blogs[id][f]
            /\ blogs'[id] # blogs[id] =>
                  (/\ Answers
                   /\ last'.id = id
                   /\ last'.op \in {"getBlog", "updateBlog", "updateBlogState"})
       /\ \A id \in Ids \ DOMAIN blogs' :
            Answers /\ Answered("deleteBlog", id)']_vars

\* the update of a blog that has been read, beside another stored blog
C20_Witness ==
    /\ last.op = "updateBlog" /\ last.status = 200
    /\ last.id \in Ids
    /\ blogs[last.id].description = {<<"d">>}
    /\ blogs[last.id].read_count > 0
    /\ blogs[last.id].state = "published"
    /\ Cardinality(Ids) = 2

=============================================================================
